---- MODULE Spec2Model ----
(***************************************************************************)
(* Model of the local SES / SNS emulator (src/src/index.ts).               *)
(*                                                                         *)
(* Representation                                                          *)
(*  - An e-mail address or topic name is a sequence of one-character       *)
(*    strings, so that String.prototype.toLowerCase and === are computed   *)
(*    character by character.                                              *)
(*  - An optional JavaScript value (undefined / null or a value v) is the  *)
(*    sequence <<>> or <<v>>.                                              *)
(*  - randomUUID() is a counter: the n-th identifier drawn is n.           *)
(*  - Time is counted in milliseconds and advances in steps of TickMs.     *)
(*    A timer callback runs as soon as its delay has elapsed and the       *)
(*    JavaScript call stack is empty (run to completion).                  *)
(***************************************************************************)
EXTENDS Integers, Sequences, FiniteSets, TLC

(***************************************************************************)
(* Bounds of the model.                                                    *)
(***************************************************************************)
MaxSends == 2
MaxRecipients == 2
MaxInFlight == 2
MaxSns == 2
MaxRequests == 3

TickMs == 1000

(***************************************************************************)
(* Strings as character sequences.                                         *)
(***************************************************************************)
Upper == <<"A","B","C","D","E","F","G","H","I","J","K","L","M",
           "N","O","P","Q","R","S","T","U","V","W","X","Y","Z">>
Lower == <<"a","b","c","d","e","f","g","h","i","j","k","l","m",
           "n","o","p","q","r","s","t","u","v","w","x","y","z">>

LowerChar(ch) ==
  IF \E i \in 1..Len(Upper) : Upper[i] = ch
  THEN Lower[CHOOSE i \in 1..Len(Upper) : Upper[i] = ch]
  ELSE ch

toLowerCase(s) == [i \in 1..Len(s) |-> LowerChar(s[i])]

TestCom == <<"@","t","e","s","t",".","c","o","m">>

DeliveredAddr   == <<"d","e","l","i","v","e","r","e","d">> \o TestCom
BouncedAddr     == <<"b","o","u","n","c","e","d">> \o TestCom
SoftBouncedAddr == <<"s","o","f","t","b","o","u","n","c","e","d">> \o TestCom
ComplainedAddr  == <<"c","o","m","p","l","a","i","n","e","d">> \o TestCom
RejectedAddr    == <<"r","e","j","e","c","t","e","d">> \o TestCom
OpenedAddr      == <<"o","p","e","n","e","d">> \o TestCom
ClickedAddr     == <<"c","l","i","c","k","e","d">> \o TestCom
DelayedAddr     == <<"d","e","l","a","y","e","d">> \o TestCom
FailedAddr      == <<"f","a","i","l","e","d">> \o TestCom

(***************************************************************************)
(* Object.entries(EMAIL_EVENT_PATTERNS), in insertion order.               *)
(***************************************************************************)
EMAIL_EVENT_PATTERNS == <<
  [pattern |-> DeliveredAddr,   events |-> <<"Send", "Delivery">>],
  [pattern |-> BouncedAddr,     events |-> <<"Send", "Bounce">>],
  [pattern |-> SoftBouncedAddr, events |-> <<"Send", "Delivery", "Bounce">>],
  [pattern |-> ComplainedAddr,  events |-> <<"Send", "Delivery", "Complaint">>],
  [pattern |-> RejectedAddr,    events |-> <<"Send", "Reject">>],
  [pattern |-> OpenedAddr,      events |-> <<"Send", "Delivery", "Open">>],
  [pattern |-> ClickedAddr,     events |-> <<"Send", "Delivery", "Click">>],
  [pattern |-> DelayedAddr,     events |-> <<"Send", "DeliveryDelay">>],
  [pattern |-> FailedAddr,      events |-> <<"Send", "Rendering Failure">>] >>

(***************************************************************************)
(* Optional values and sequence helpers.                                   *)
(***************************************************************************)
Opt(S) == {<<>>} \cup {<<v>> : v \in S}

SeqsUpTo(S, n) == UNION {[1..k -> S] : k \in 0..n}

Range(s) == {s[i] : i \in 1..Len(s)}

RECURSIVE Flatten(_)
Flatten(ss) == IF ss = <<>> THEN <<>> ELSE Head(ss) \o Flatten(Tail(ss))

(***************************************************************************)
(* Process state.                                                          *)
(*   WEBHOOK_URL  process.env.WEBHOOK_URL, <<>> when unset                 *)
(*   SENT_EMAILS  the sent-message log                                     *)
(*   uuid         number of identifiers randomUUID() has produced          *)
(*   running      the send handler on the call stack, <<>> when none       *)
(*   parsing      send handlers suspended at await simpleParser(...)       *)
(*   handoffs     the toAddresses each send handler has looped over        *)
(*   timers       pending setTimeout callbacks, in insertion order         *)
(*   invoked      calls of sendWebhookNotification, in call order          *)
(*   posts        envelopes handed to fetch(WEBHOOK_URL, ...), in order    *)
(*   fetches      indices of posts whose fetch has not settled             *)
(*   console      the line sendWebhookNotification wrote last              *)
(*   responses    responses of the send endpoint, in order                 *)
(* A send request is named by req, its position among the accepted sends.  *)
(*   snsResponses requests and responses of POST /api/sns/, in order       *)
(*   confirms     subscription-confirmation POSTs, in order                *)
(*   unhandledRejections  confirmation POSTs whose rejection no handler    *)
(*                took                                                     *)
(*   EMAIL_IDENTITIES, DKIM_KEYS, CONFIGURATION_SETS  the maps of the      *)
(*                identity and configuration-set endpoints                 *)
(*   reply        the last response of an endpoint other than an accepted  *)
(*                send and POST /api/sns/                                  *)
(*   served       number of requests those endpoints have answered         *)
(***************************************************************************)
VARIABLES WEBHOOK_URL, SENT_EMAILS, uuid, running, parsing, timers, invoked,
          posts, fetches, console, responses, handoffs, snsResponses, confirms,
          unhandledRejections, EMAIL_IDENTITIES, DKIM_KEYS, CONFIGURATION_SETS,
          reply, served

vars == <<WEBHOOK_URL, SENT_EMAILS, uuid, running, parsing, timers, invoked,
          posts, fetches, console, responses, handoffs, snsResponses, confirms,
          unhandledRejections, EMAIL_IDENTITIES, DKIM_KEYS, CONFIGURATION_SETS,
          reply, served>>

snsVars == <<snsResponses, confirms, unhandledRejections>>

storeVars == <<EMAIL_IDENTITIES, DKIM_KEYS, CONFIGURATION_SETS>>

apiVars == <<storeVars, reply, served>>

(***************************************************************************)
(* Recipient addresses of the runs: the registered addresses, letter-case  *)
(* variants of them, and addresses that are near a registered one without  *)
(* being it.                                                               *)
(***************************************************************************)
TestComMixed == <<"@","T","e","s","t",".","c","o","m">>

SoftBouncedMixed == <<"S","o","f","t","B","o","u","n","c","e","d">> \o TestComMixed
BouncedUpper     == <<"B","O","U","N","C","E","D","@","T","E","S","T",".","C","O","M">>
ClickedMixed     == <<"C","l","i","c","k","e","d">> \o TestCom
UserAddr         == <<"u","s","e","r">> \o TestCom
UserUpper        == <<"U","S","E","R">> \o TestCom
ClickedShort     == <<"c","l","i","c","k","e","d","@","t","e","s","t",".","c","o">>
SubClicked       == <<"x","c","l","i","c","k","e","d">> \o TestCom

AllAddresses ==
  { DeliveredAddr, BouncedAddr, SoftBouncedAddr, ComplainedAddr, RejectedAddr,
    OpenedAddr, ClickedAddr, DelayedAddr, FailedAddr,
    SoftBouncedMixed, BouncedUpper, ClickedMixed,
    UserAddr, UserUpper, ClickedShort, SubClicked }

(***************************************************************************)
(* Lines 360-387: classification of one recipient and its setTimeout calls.*)
(***************************************************************************)
\* variant: the comparison without toLowerCase
MatchesExactCase(recipient, pattern) == recipient = pattern

Matches(recipient, pattern) == toLowerCase(recipient) = toLowerCase(pattern)

\* index of the first table entry the recipient matches, 0 when matchFound
\* stays false
MatchIndex(recipient) ==
  IF \E k \in 1..Len(EMAIL_EVENT_PATTERNS) :
       Matches(recipient, EMAIL_EVENT_PATTERNS[k].pattern)
  THEN CHOOSE k \in 1..Len(EMAIL_EVENT_PATTERNS) :
         /\ Matches(recipient, EMAIL_EVENT_PATTERNS[k].pattern)
         /\ \A j \in 1..(k-1) : ~Matches(recipient, EMAIL_EVENT_PATTERNS[j].pattern)
  ELSE 0

\* MatchIndex of every address of the runs, computed once
Classified == [a \in AllAddresses |-> MatchIndex(a)]

\* the delay argument of setTimeout for forEach index `index` (0-based)
TimerDelay(index) == index * 1000

\* a pending timer: the closure (messageId, eventType, recipient), its delay
\* and the time elapsed since setTimeout; at names the setTimeout call: the
\* request, the position of the recipient in toAddresses and the position
\* of the call among those for that recipient (from 0)
Timer(messageId, eventType, recipient, delay, at) ==
  [messageId |-> messageId, eventType |-> eventType, recipient |-> recipient,
   delay |-> delay, age |-> 0, req |-> at.req, rcpt |-> at.rcpt, index |-> at.index]

At(send, rcpt, index) == [req |-> send.req, rcpt |-> rcpt, index |-> index]

PatternTimers(send, recipient, rcpt, events) ==
  [i \in 1..Len(events) |->
     Timer(send.messageId, events[i], recipient, TimerDelay(i - 1),
           At(send, rcpt, i - 1))]

\* variant: the second default event is named "Delivered"
DefaultTimersDelivered(send, recipient, rcpt) ==
  << Timer(send.messageId, "Send", recipient, 0, At(send, rcpt, 0)),
     Timer(send.messageId, "Delivered", recipient, 1000, At(send, rcpt, 1)) >>

\* variant: both default events with delay 0
DefaultTimersAtOnce(send, recipient, rcpt) ==
  << Timer(send.messageId, "Send", recipient, 0, At(send, rcpt, 0)),
     Timer(send.messageId, "Delivery", recipient, 0, At(send, rcpt, 1)) >>

DefaultTimers(send, recipient, rcpt) ==
  << Timer(send.messageId, "Send", recipient, 0, At(send, rcpt, 0)),
     Timer(send.messageId, "Delivery", recipient, 1000, At(send, rcpt, 1)) >>

RecipientTimers(send, recipient, rcpt) ==
  IF Classified[recipient] # 0
  THEN PatternTimers(send, recipient, rcpt,
                     EMAIL_EVENT_PATTERNS[Classified[recipient]].events)
  ELSE DefaultTimers(send, recipient, rcpt)

\* variant: an address is scheduled at its first position only
ScheduleAllDistinct(send, toAddresses) ==
  Flatten([j \in 1..Len(toAddresses) |->
             IF \E i \in 1..(j - 1) : toAddresses[i] = toAddresses[j]
             THEN <<>>
             ELSE RecipientTimers(send, toAddresses[j], j)])

\* the for loop over toAddresses, in the handler send = [req, messageId]
ScheduleAll(send, toAddresses) ==
  Flatten([j \in 1..Len(toAddresses) |-> RecipientTimers(send, toAddresses[j], j)])

(***************************************************************************)
(* Lines 195-289: the event body and the envelope.  Timestamps are not     *)
(* modelled.  JSON.stringify turns the event body into a string, which the *)
(* model keeps as a value tagged json; the receiver reads it back with     *)
(* JSONparse.                                                              *)
(***************************************************************************)
JSONstringify(v) == [json |-> v]

JSONparse(s) == s.json

\* the kinds whose case draws a feedbackId with randomUUID()
DrawsFeedbackId(eventType) == eventType \in {"Bounce", "Complaint"}

BounceType(recipient) ==
  IF recipient = SoftBouncedAddr THEN "Transient" ELSE "Permanent"

\* the switch on eventType; fid is the identifier randomUUID() returns there
EventSpecific(eventType, recipient, fid) ==
  CASE eventType = "Send" -> [send |-> <<>>]
    [] eventType = "Delivery" ->
         [delivery |-> [processingTimeMillis |-> 100,
                        recipients |-> <<recipient>>,
                        smtpResponse |-> "250 OK"]]
    [] eventType = "Bounce" ->
         [bounce |-> [bounceType |-> BounceType(recipient),
                      bounceSubType |-> "General",
                      feedbackId |-> fid,
                      bouncedRecipients |-> <<[emailAddress |-> recipient]>>]]
    [] eventType = "Complaint" ->
         [complaint |-> [complainedRecipients |-> <<[emailAddress |-> recipient]>>,
                         feedbackId |-> fid]]
    [] eventType = "Open" ->
         [open |-> [ipAddress |-> "127.0.0.1",
                    userAgent |-> "Mozilla/5.0 (Macintosh; Intel Mac OS X 10_15_7)"]]
    [] eventType = "Click" ->
         [click |-> [ipAddress |-> "127.0.0.1",
                     userAgent |-> "Mozilla/5.0 (Macintosh; Intel Mac OS X 10_15_7)",
                     link |-> "https://unsend.dev",
                     linkTags |-> [campaign |-> "welcome", type |-> "cta"]]]
    [] eventType = "DeliveryDelay" ->
         [deliveryDelay |-> [delayType |-> "MailboxFull",
                             delayedRecipients |-> <<recipient>>]]
    [] OTHER -> <<>>

\* variant: the destination is the lower-cased recipient
EventDataLowered(messageId, eventType, recipient, fid) ==
  [eventType |-> eventType,
   mail |-> [messageId |-> messageId,
             source |-> "sender@test.com",
             destination |-> <<toLowerCase(recipient)>>]]
  @@ EventSpecific(eventType, recipient, fid)

EventData(messageId, eventType, recipient, fid) ==
  [eventType |-> eventType,
   mail |-> [messageId |-> messageId,
             source |-> "sender@test.com",
             destination |-> <<recipient>>]]
  @@ EventSpecific(eventType, recipient, fid)

\* nid is the identifier randomUUID() returns for the envelope
Payload(eventData, nid) ==
  [Type |-> "Notification",
   MessageId |-> nid,
   TopicArn |-> "arn:aws:sns:us-east-1:000000000000:ses-notifications",
   Message |-> JSONstringify(eventData),
   SignatureVersion |-> "1",
   Signature |-> "mock-signature",
   SigningCertURL |->
     "https://sns.us-east-1.amazonaws.com/SimpleNotificationService.pem"]

\* the envelope sendWebhookNotification builds when uuid identifiers have
\* been drawn so far
BuildPayload(messageId, eventType, recipient, drawn) ==
  IF DrawsFeedbackId(eventType)
  THEN Payload(EventData(messageId, eventType, recipient, drawn + 1), drawn + 2)
  ELSE Payload(EventData(messageId, eventType, recipient, 0), drawn + 1)

UuidsDrawn(eventType) == IF DrawsFeedbackId(eventType) THEN 2 ELSE 1

(***************************************************************************)
(* Request bodies and parser results.                                      *)
(***************************************************************************)
\* a request body: Destination?.ToAddresses, Content?.Raw?.Data and a
\* MessageId field the client may have put in the body
Body(to, raw, mid) == [ToAddresses |-> to, RawData |-> raw, MessageId |-> mid]

RawBase64 == "VG86IA=="

\* a recipient list: any address, after up to MaxRecipients - 1 addresses
\* of CompanionAddresses
CompanionAddresses == {UserAddr, SoftBouncedMixed}

RecipientLists ==
  {<<>>} \cup
  {front \o <<a>> :
     front \in SeqsUpTo(CompanionAddresses, MaxRecipients - 1), a \in AllAddresses}

\* a run is one send with any recipient list, or up to MaxSends sends of
\* the bodies of ConcurrentBodies, which overlap in time
SingleBodies ==
  {Body(<<l>>, <<>>, <<>>) : l \in RecipientLists}
  \cup { Body(<<>>, <<>>, <<>>),
         Body(<< <<UserAddr>> >>, <<"">>, <<>>),
         Body(<<>>, <<RawBase64>>, <<>>) }

ConcurrentBodies ==
  { Body(<< <<SoftBouncedMixed>> >>, <<>>, <<0>>),
    Body(<< <<ClickedAddr>> >>, <<RawBase64>>, <<>>) }

IsConcurrent(record) ==
  \E b \in ConcurrentBodies :
     b.ToAddresses = record.ToAddresses /\ b.RawData = record.RawData

ClientBodies(sent) ==
  IF sent = <<>> THEN SingleBodies \cup ConcurrentBodies
  ELSE IF \A k \in 1..Len(sent) : IsConcurrent(sent[k]) THEN ConcurrentBodies
  ELSE {}

\* what simpleParser resolves to (parsed.to) or that it rejects
ParseOutcomes ==
  { [kind |-> "throw"],
    [kind |-> "undefined"],
    [kind |-> "array", value |-> <<[address |-> <<ClickedMixed>>, text |-> <<UserAddr>>],
                                   [address |-> <<>>, text |-> <<BouncedAddr>>]>>],
    [kind |-> "object", text |-> <<>>],
    [kind |-> "object", text |-> <<SoftBouncedAddr>>],
    [kind |-> "string", value |-> UserUpper] }

(***************************************************************************)
(* Lines 316-355: the recipient list.                                      *)
(***************************************************************************)
\* variant: body.Content?.Raw?.Data !== undefined
IsRawWhenPresent(body) == body.RawData # <<>>

\* body.Content?.Raw?.Data is truthy
IsRaw(body) == body.RawData # <<>> /\ body.RawData[1] # ""

\* destination?.ToAddresses || []
StructuredAddresses(body) ==
  IF body.ToAddresses = <<>> THEN <<>> ELSE body.ToAddresses[1]

\* addr.address || addr.text
AddressOf(addr) == IF addr.address # <<>> THEN addr.address[1] ELSE addr.text[1]

\* variant: the catch block falls back to a recipient instead of none
ParsedAddressesCatchFallback(parsed) ==
  CASE parsed.kind = "throw" -> <<UserAddr>>
    [] parsed.kind = "undefined" -> <<>>
    [] parsed.kind = "array" ->
         [i \in 1..Len(parsed.value) |-> AddressOf(parsed.value[i])]
    [] parsed.kind = "object" ->
         IF parsed.text # <<>> THEN <<parsed.text[1]>> ELSE <<>>
    [] parsed.kind = "string" -> <<parsed.value>>

\* the try block around simpleParser and its catch
ParsedAddresses(parsed) ==
  CASE parsed.kind = "throw" -> <<>>
    [] parsed.kind = "undefined" -> <<>>
    [] parsed.kind = "array" ->
         [i \in 1..Len(parsed.value) |-> AddressOf(parsed.value[i])]
    [] parsed.kind = "object" ->
         IF parsed.text # <<>> THEN <<parsed.text[1]>> ELSE <<>>
    [] parsed.kind = "string" -> <<parsed.value>>

\* variant: { MessageId: messageId, ...body }
RecordBodyWins(body, messageId) ==
  IF body.MessageId # <<>> THEN body ELSE [body EXCEPT !.MessageId = <<messageId>>]

\* { ...body, MessageId: messageId }
Record(body, messageId) == [body EXCEPT !.MessageId = <<messageId>>]

\* new Map(): a map is a function from the keys set so far
EmptyMap == [k \in {} |-> <<>>]

MapSet(m, key, value) ==
  [k \in DOMAIN m \cup {key} |-> IF k = key THEN value ELSE m[k]]

MapDelete(m, key) == [k \in DOMAIN m \ {key} |-> m[k]]

Init ==
  /\ WEBHOOK_URL \in {<<>>, <<"http://localhost:3000/api/ses_callback">>}
  /\ SENT_EMAILS = <<>>
  /\ uuid = 0
  /\ running = <<>>
  /\ parsing = {}
  /\ timers = <<>>
  /\ invoked = <<>>
  /\ posts = <<>>
  /\ fetches = {}
  /\ console = <<>>
  /\ responses = <<>>
  /\ handoffs = <<>>
  /\ snsResponses = <<>>
  /\ confirms = <<>>
  /\ unhandledRejections = {}
  /\ EMAIL_IDENTITIES = EmptyMap
  /\ DKIM_KEYS = EmptyMap
  /\ CONFIGURATION_SETS = EmptyMap
  /\ reply = <<>>
  /\ served = 0

(***************************************************************************)
(* POST /api/ses/v2/email/outbound-emails, lines 311-390, from the point   *)
(* where c.req.json() has produced the body.  A structured request runs to *)
(* the return statement; a raw request is suspended at await simpleParser. *)
(***************************************************************************)
Handler(req, messageId) == [req |-> req, messageId |-> messageId]

HandOff(send, via, toAddresses) ==
  [req |-> send.req, messageId |-> send.messageId, via |-> via,
   toAddresses |-> toAddresses]

\* line 389: c.json({ MessageId: messageId })
SendResponse(send) == [req |-> send.req, status |-> 200, MessageId |-> send.messageId]

SendEmail(body) ==
  /\ running = <<>>
  /\ Len(SENT_EMAILS) < MaxSends
  /\ uuid' = uuid + 1
  /\ SENT_EMAILS' = Append(SENT_EMAILS, Record(body, uuid + 1))
  /\ LET send == Handler(Len(SENT_EMAILS) + 1, uuid + 1) IN
     IF IsRaw(body)
     THEN /\ parsing' = parsing \cup {send}
          /\ UNCHANGED <<timers, running, handoffs>>
     ELSE /\ timers' = timers \o ScheduleAll(send, StructuredAddresses(body))
          /\ handoffs' = Append(handoffs,
                           HandOff(send, "structured", StructuredAddresses(body)))
          /\ running' = <<send>>
          /\ UNCHANGED parsing
  /\ UNCHANGED <<WEBHOOK_URL, invoked, posts, fetches, console, responses, snsVars, apiVars>>

\* simpleParser settles and the suspended handler resumes: lines 328-387
ParseDone(send, parsed) ==
  /\ running = <<>>
  /\ send \in parsing
  /\ parsing' = parsing \ {send}
  /\ timers' = timers \o ScheduleAll(send, ParsedAddresses(parsed))
  /\ handoffs' = Append(handoffs, HandOff(send, parsed.kind, ParsedAddresses(parsed)))
  /\ running' = <<send>>
  /\ UNCHANGED <<WEBHOOK_URL, SENT_EMAILS, uuid, invoked, posts, fetches, console,
                 responses, snsVars, apiVars>>

\* the handler returns its response
Return ==
  /\ running # <<>>
  /\ responses' = Append(responses, SendResponse(running[1]))
  /\ running' = <<>>
  /\ UNCHANGED <<WEBHOOK_URL, SENT_EMAILS, uuid, parsing, timers, invoked, posts,
                 fetches, console, handoffs, snsVars, apiVars>>

(***************************************************************************)
(* Timers.  A callback may run when its delay has elapsed and no handler   *)
(* is on the call stack; callbacks that are due run in insertion order.    *)
(***************************************************************************)
Due(t) == t.age >= t.delay

\* variant: a callback may run while a handler is on the call stack
CallStackIgnored == TRUE

CallStackEmpty == running = <<>>

HasDue == \E k \in 1..Len(timers) : Due(timers[k])

FirstDue == CHOOSE k \in 1..Len(timers) :
              Due(timers[k]) /\ \A j \in 1..(k-1) : ~Due(timers[j])

RemoveAt(s, k) == SubSeq(s, 1, k - 1) \o SubSeq(s, k + 1, Len(s))

\* variant: if (WEBHOOK_URL)
NoWebhookInverted(url) == url # <<>>

\* line 190: if (!WEBHOOK_URL)
NoWebhook(url) == url = <<>>

Invocation(t) ==
  [messageId |-> t.messageId, eventType |-> t.eventType, recipient |-> t.recipient,
   offset |-> t.age, req |-> t.req, rcpt |-> t.rcpt, index |-> t.index]

\* variant: a callback waits until the POSTs made for its recipient have
\* settled
TimerFireAwaitsPrevious ==
  /\ CallStackEmpty
  /\ HasDue
  /\ LET t == timers[FirstDue] IN
     /\ \A i \in fetches : ~(invoked[i].req = t.req /\ invoked[i].rcpt = t.rcpt)
     /\ timers' = RemoveAt(timers, FirstDue)
     /\ invoked' = Append(invoked, Invocation(t))
     /\ IF NoWebhook(WEBHOOK_URL)
        THEN /\ console' = <<"log", "No webhook URL configured, skipping notification">>
             /\ UNCHANGED <<uuid, posts, fetches>>
        ELSE /\ Cardinality(fetches) < MaxInFlight
             /\ posts' = Append(posts,
                           BuildPayload(t.messageId, t.eventType, t.recipient, uuid))
             /\ fetches' = fetches \cup {Len(posts) + 1}
             /\ uuid' = uuid + UuidsDrawn(t.eventType)
             /\ UNCHANGED console
  /\ UNCHANGED <<WEBHOOK_URL, SENT_EMAILS, running, parsing, responses, handoffs,
                 snsVars, apiVars>>

\* a timer callback calls sendWebhookNotification, lines 185-296, up to the
\* await of fetch
TimerFire ==
  /\ CallStackEmpty
  /\ HasDue
  /\ LET t == timers[FirstDue] IN
     /\ timers' = RemoveAt(timers, FirstDue)
     /\ invoked' = Append(invoked, Invocation(t))
     /\ IF NoWebhook(WEBHOOK_URL)
        THEN /\ console' = <<"log", "No webhook URL configured, skipping notification">>
             /\ UNCHANGED <<uuid, posts, fetches>>
        ELSE /\ Cardinality(fetches) < MaxInFlight
             /\ posts' = Append(posts,
                           BuildPayload(t.messageId, t.eventType, t.recipient, uuid))
             /\ fetches' = fetches \cup {Len(posts) + 1}
             /\ uuid' = uuid + UuidsDrawn(t.eventType)
             /\ UNCHANGED console
  /\ UNCHANGED <<WEBHOOK_URL, SENT_EMAILS, running, parsing, responses, handoffs,
                 snsVars, apiVars>>

\* TickMs milliseconds pass
Tick ==
  /\ CallStackEmpty
  /\ timers # <<>>
  /\ ~HasDue
  /\ timers' = [k \in 1..Len(timers) |-> [timers[k] EXCEPT !.age = @ + TickMs]]
  /\ UNCHANGED <<WEBHOOK_URL, SENT_EMAILS, uuid, running, parsing, invoked, posts,
                 fetches, console, responses, handoffs, snsVars, apiVars>>

(***************************************************************************)
(* Lines 291-307: the fetch of post i settles: a response that is ok, a    *)
(* response that is not, or a rejection.                                   *)
(***************************************************************************)
FetchOutcomes == {"ok", "notok", "reject"}

\* the line written after the await, without the values interpolated in it
LogLine(outcome) ==
  CASE outcome = "ok" -> <<"log", "Sent notification">>
    [] outcome = "notok" -> <<"error", "Failed to send webhook notification">>
    [] outcome = "reject" -> <<"error", "Error sending webhook notification:">>

\* variant: a failed POST cancels the timers still pending for its send
FetchSettleCancels(i, outcome) ==
  /\ CallStackEmpty
  /\ i \in fetches
  /\ fetches' = fetches \ {i}
  /\ console' = LogLine(outcome)
  /\ timers' = IF outcome = "ok" THEN timers
               ELSE SelectSeq(timers, LAMBDA t :
                      t.messageId # JSONparse(posts[i].Message).mail.messageId)
  /\ UNCHANGED <<WEBHOOK_URL, SENT_EMAILS, uuid, running, parsing, invoked,
                 posts, responses, handoffs, snsVars, apiVars>>

FetchSettle(i, outcome) ==
  /\ CallStackEmpty
  /\ i \in fetches
  /\ fetches' = fetches \ {i}
  /\ console' = LogLine(outcome)
  /\ UNCHANGED <<WEBHOOK_URL, SENT_EMAILS, uuid, running, parsing, timers, invoked,
                 posts, responses, handoffs, snsVars, apiVars>>

(***************************************************************************)
(* POST /api/sns/, lines 426-514.  params.get(k) is <<>> when the form     *)
(* body has no key k.  A topic name or identifier is a character sequence; *)
(* a text built by a template literal around another kind of value is the  *)
(* sequence of its parts.                                                  *)
(***************************************************************************)
PORT == 3000

ArnPrefix == <<"a","r","n",":","a","w","s",":","s","n","s",":","u","s","-","e","a",
               "s","t","-","1",":","1","2","3","4","5","6","7","8","9","0","1","2",":">>

FooName == <<"f","o","o">>
OrdersName == <<"o","r","d","e","r","s","-","2">>

SnsActions == {"CreateTopic", "Subscribe", "Publish", "DeleteTopic", "bogus", "createtopic"}

SnsParams ==
  [Action : Opt(SnsActions),
   Name : Opt({FooName, OrdersName}),
   TopicArn : Opt({ArnPrefix \o FooName}),
   Endpoint : {<<>>, <<"">>, <<"http://localhost:4000/sns-hook">>}]

\* `${v}` for a value params.get returned: null prints as "null"
InterpChars(opt) == IF opt = <<>> THEN <<"n","u","l","l">> ELSE opt[1]

InterpString(opt) == IF opt = <<>> THEN "null" ELSE opt[1]

\* topicArn && endpoint
BothTruthy(topicArn, endpoint) ==
  /\ topicArn # <<>> /\ topicArn[1] # <<>>
  /\ endpoint # <<>> /\ endpoint[1] # ""

\* variant: the POST goes to the SubscribeURL instead of the endpoint
SubscriptionConfirmationToSelf(topicArn, url) ==
  [url |-> "http://localhost:3000",
   method |-> "POST",
   body |-> JSONstringify([SubscribeURL |-> <<"http://localhost:", PORT>>,
                           TopicArn |-> topicArn,
                           Type |-> "SubscriptionConfirmation"]),
   state |-> "pending"]

\* lines 505-514: the confirmation POST handed to fetch, not awaited
SubscriptionConfirmation(topicArn, url) ==
  [url |-> url,
   method |-> "POST",
   body |-> JSONstringify([SubscribeURL |-> <<"http://localhost:", PORT>>,
                           TopicArn |-> topicArn,
                           Type |-> "SubscriptionConfirmation"]),
   state |-> "pending"]

\* the switch on action: the status and the document; drawn identifiers
\* have been produced by randomUUID() before the request
\* variant: the default case without c.status(400)
SnsStatusAlwaysOk(action) == 200

SnsStatus(action) ==
  IF action \in {<<"CreateTopic">>, <<"Subscribe">>, <<"Publish">>, <<"DeleteTopic">>}
  THEN 200 ELSE 400

SnsDocument(params, drawn) ==
  CASE params.Action = <<"CreateTopic">> ->
         [root |-> "CreateTopicResponse",
          TopicArn |-> ArnPrefix \o InterpChars(params.Name),
          RequestId |-> <<drawn + 1>>]
    [] params.Action = <<"Subscribe">> ->
         [root |-> "SubscribeResponse",
          SubscriptionArn |-> <<ArnPrefix \o InterpChars(params.TopicArn), ":", drawn + 1>>,
          RequestId |-> <<drawn + 2>>]
    [] params.Action = <<"Publish">> ->
         [root |-> "PublishResponse",
          MessageId |-> drawn + 1,
          RequestId |-> <<drawn + 2>>]
    [] params.Action = <<"DeleteTopic">> ->
         [root |-> "DeleteTopicResponse",
          TopicArn |-> ArnPrefix \o InterpChars(params.TopicArn),
          RequestId |-> <<>>]
    [] OTHER ->
         [root |-> "ErrorResponse",
          Type |-> "Sender",
          Code |-> "InvalidAction",
          Message |-> <<"The action ", InterpString(params.Action), " is not valid">>,
          RequestId |-> <<drawn + 1>>]

SnsUuidsDrawn(action) ==
  CASE action \in {<<"Subscribe">>, <<"Publish">>} -> 2
    [] action = <<"DeleteTopic">> -> 0
    [] OTHER -> 1

SnsRequest(params) ==
  /\ CallStackEmpty
  /\ Len(snsResponses) < MaxSns
  /\ snsResponses' = Append(snsResponses,
                       [request |-> params,
                        status |-> SnsStatus(params.Action),
                        contentType |-> "application/xml",
                        doc |-> SnsDocument(params, uuid)])
  /\ uuid' = uuid + SnsUuidsDrawn(params.Action)
  /\ IF params.Action = <<"Subscribe">> /\ BothTruthy(params.TopicArn, params.Endpoint)
     THEN confirms' = Append(confirms,
                        SubscriptionConfirmation(params.TopicArn[1], params.Endpoint[1]))
     ELSE UNCHANGED confirms
  /\ UNCHANGED <<WEBHOOK_URL, SENT_EMAILS, running, parsing, timers, invoked, posts,
                 fetches, console, responses, handoffs, unhandledRejections, apiVars>>

\* the fetch of confirmation i settles.  handleSNSSubscription drops the
\* promise fetch returns: nothing awaits it and no catch is attached, so a
\* rejection reaches no handler of the program and no line is written
ConfirmSettle(i, outcome) ==
  /\ CallStackEmpty
  /\ i \in 1..Len(confirms)
  /\ confirms[i].state = "pending"
  /\ confirms' = [confirms EXCEPT ![i].state = outcome]
  /\ unhandledRejections' =
       IF outcome = "rejected" THEN unhandledRejections \cup {i}
       ELSE unhandledRejections
  /\ UNCHANGED <<WEBHOOK_URL, SENT_EMAILS, uuid, running, parsing, timers, invoked,
                 posts, fetches, console, responses, handoffs, snsResponses, apiVars>>

(***************************************************************************)
(* The other endpoints, lines 62-182, 311-312, 393-424 and 517-524.  Each  *)
(* handler runs from its request to its response in one step and leaves    *)
(* its response in reply.  Timestamps are not modelled.                    *)
(***************************************************************************)
\* requests answered so far, over all endpoints
Requests == Len(SENT_EMAILS) + Len(snsResponses) + served

Reply(route, status, body) == [route |-> route, status |-> status, body |-> body]

\* lines 67-90: the record returned for an identity that is not stored
DefaultIdentity(identity) ==
  [IdentityType |-> "DOMAIN",
   FeedbackForwardingStatus |-> TRUE,
   VerifiedForSendingStatus |-> TRUE,
   DkimAttributes |-> [SigningEnabled |-> TRUE,
                       Status |-> "SUCCESS",
                       SigningAttributesOrigin |-> "EXTERNAL",
                       DomainSigningSelector |-> "unsend",
                       CurrentSigningKeyLength |-> "RSA_2048_BIT"],
   MailFromAttributes |-> [MailFromDomain |-> <<"mail.", identity>>,
                           MailFromDomainStatus |-> "SUCCESS",
                           BehaviorOnMxFailure |-> "USE_DEFAULT_VALUE"],
   VerificationStatus |-> "SUCCESS"]

\* lines 101-113: DkimSigningAttributes?.DomainSigningPrivateKey is truthy
DkimKeys(attrs) ==
  IF attrs # <<>> /\ attrs[1].DomainSigningPrivateKey # <<>>
  THEN [privateKey |-> attrs[1].DomainSigningPrivateKey[1],
        publicKey |-> "mock-public-key"]
  ELSE [privateKey |-> "mock-private-key", publicKey |-> "mock-public-key"]

\* DkimSigningAttributes?.DomainSigningSelector || "unsend"
SelectorOf(attrs) ==
  IF attrs # <<>> /\ attrs[1].DomainSigningSelector # <<>>
  THEN attrs[1].DomainSigningSelector[1] ELSE "unsend"

\* lines 115-140
Identity(body) ==
  [IdentityType |-> "DOMAIN",
   FeedbackForwardingStatus |-> TRUE,
   VerifiedForSendingStatus |-> TRUE,
   DkimAttributes |-> [SigningEnabled |-> TRUE,
                       Status |-> "SUCCESS",
                       SigningAttributesOrigin |-> "EXTERNAL",
                       DomainSigningSelector |-> SelectorOf(body.DkimSigningAttributes),
                       DomainSigningPrivateKey |->
                         DkimKeys(body.DkimSigningAttributes).privateKey,
                       CurrentSigningKeyLength |-> "RSA_2048_BIT"],
   MailFromAttributes |-> [MailFromDomain |-> <<"mail@", body.EmailIdentity>>,
                           MailFromDomainStatus |-> "SUCCESS",
                           BehaviorOnMxFailure |-> "USE_DEFAULT_VALUE"],
   VerificationStatus |-> "SUCCESS"]

IdentityNames == {"example.com"}

CreateIdentityBodies ==
  [EmailIdentity : IdentityNames,
   DkimSigningAttributes :
     {<<>>, <<[DomainSigningPrivateKey |-> <<"client-key">>,
               DomainSigningSelector |-> <<>>]>>}]

MailFromBodies == {[MailFromDomain |-> "bounce.example.com"]}

ConfigSetNames == {"default"}

DestinationBodies == {[EventDestinationName |-> "hook"]}

\* request bodies of the send endpoint that are not JSON texts
MalformedTexts == {"", "{\"Destination\":"}

\* the variables an endpoint other than the send endpoint never assigns
sendVars == <<WEBHOOK_URL, SENT_EMAILS, uuid, running, parsing, timers, invoked,
              posts, fetches, console, responses, handoffs>>

\* GET /api/ses/v2/email/identities/:identity
GetEmailIdentity(identity) ==
  /\ CallStackEmpty
  /\ served < MaxRequests
  /\ reply' = Reply("GetEmailIdentity", 200,
                IF identity \in DOMAIN EMAIL_IDENTITIES
                THEN EMAIL_IDENTITIES[identity] ELSE DefaultIdentity(identity))
  /\ served' = served + 1
  /\ UNCHANGED <<sendVars, snsVars, storeVars>>

\* POST /api/ses/v2/email/identities
CreateEmailIdentity(body) ==
  /\ CallStackEmpty
  /\ served < MaxRequests
  /\ EMAIL_IDENTITIES' = MapSet(EMAIL_IDENTITIES, body.EmailIdentity, Identity(body))
  /\ DKIM_KEYS' = MapSet(DKIM_KEYS, body.EmailIdentity,
                         DkimKeys(body.DkimSigningAttributes))
  /\ reply' = Reply("CreateEmailIdentity", 200,
                [DkimAttributes |-> Identity(body).DkimAttributes,
                 VerificationStatus |-> Identity(body).VerificationStatus])
  /\ served' = served + 1
  /\ UNCHANGED <<sendVars, snsVars, CONFIGURATION_SETS>>

\* DELETE /api/ses/v2/email/identities/:identity
DeleteEmailIdentity(identity) ==
  /\ CallStackEmpty
  /\ served < MaxRequests
  /\ EMAIL_IDENTITIES' = MapDelete(EMAIL_IDENTITIES, identity)
  /\ reply' = Reply("DeleteEmailIdentity", 200, <<>>)
  /\ served' = served + 1
  /\ UNCHANGED <<sendVars, snsVars, DKIM_KEYS, CONFIGURATION_SETS>>

\* PUT /api/ses/v2/email/identities/:identity/mail-from
PutEmailIdentityMailFromAttributes(identity, body) ==
  /\ CallStackEmpty
  /\ served < MaxRequests
  /\ IF identity \notin DOMAIN EMAIL_IDENTITIES
     THEN /\ reply' = Reply("PutEmailIdentityMailFromAttributes", 404,
                        [error |-> "Identity not found"])
          /\ UNCHANGED EMAIL_IDENTITIES
     ELSE /\ EMAIL_IDENTITIES' =
               [EMAIL_IDENTITIES EXCEPT ![identity].MailFromAttributes =
                  [MailFromDomain |-> body.MailFromDomain,
                   MailFromDomainStatus |-> "SUCCESS",
                   BehaviorOnMxFailure |-> "USE_DEFAULT_VALUE"]]
          /\ reply' = Reply("PutEmailIdentityMailFromAttributes", 200,
                        [metadata |-> [httpStatusCode |-> 200]])
  /\ served' = served + 1
  /\ UNCHANGED <<sendVars, snsVars, DKIM_KEYS, CONFIGURATION_SETS>>

\* GET /api/ses/v2/account
GetAccount ==
  /\ CallStackEmpty
  /\ served < MaxRequests
  /\ reply' = Reply("GetAccount", 200,
                [ProductionAccessEnabled |-> TRUE,
                 SendQuota |-> [Max24HourSend |-> 50000,
                                MaxSendRate |-> 10,
                                SentLast24Hours |-> Len(SENT_EMAILS)],
                 SendingEnabled |-> TRUE])
  /\ served' = served + 1
  /\ UNCHANGED <<sendVars, snsVars, storeVars>>

\* POST /api/ses/v2/email/configuration-sets
CreateConfigurationSet(body) ==
  /\ CallStackEmpty
  /\ served < MaxRequests
  /\ reply' = Reply("CreateConfigurationSet", 200, <<>>)
  /\ served' = served + 1
  /\ UNCHANGED <<sendVars, snsVars, storeVars>>

\* POST /api/ses/v2/email/configuration-sets/:configSet/event-destinations
CreateConfigurationSetEventDestination(configSet, body) ==
  /\ CallStackEmpty
  /\ served < MaxRequests
  /\ CONFIGURATION_SETS' =
       MapSet(CONFIGURATION_SETS, configSet,
              Append(IF configSet \in DOMAIN CONFIGURATION_SETS
                     THEN CONFIGURATION_SETS[configSet] ELSE <<>>, body))
  /\ reply' = Reply("CreateConfigurationSetEventDestination", 200, <<>>)
  /\ served' = served + 1
  /\ UNCHANGED <<sendVars, snsVars, EMAIL_IDENTITIES, DKIM_KEYS>>

\* variant: the listing hands out the log and empties it
GetAllEmailsDrains ==
  /\ CallStackEmpty
  /\ served < MaxRequests
  /\ reply' = Reply("GetAllEmails", 200,
                [emails |-> SENT_EMAILS, metadata |-> [httpStatusCode |-> 200]])
  /\ served' = served + 1
  /\ SENT_EMAILS' = <<>>
  /\ UNCHANGED <<WEBHOOK_URL, uuid, running, parsing, timers, invoked, posts,
                 fetches, console, responses, handoffs, snsVars, storeVars>>

\* GET /api/emails
GetAllEmails ==
  /\ CallStackEmpty
  /\ served < MaxRequests
  /\ reply' = Reply("GetAllEmails", 200,
                [emails |-> SENT_EMAILS, metadata |-> [httpStatusCode |-> 200]])
  /\ served' = served + 1
  /\ UNCHANGED <<sendVars, snsVars, storeVars>>

\* the status of the response when a handler throws: the application
\* registers no error handler and no handler catches what c.req.json()
\* throws, so the framework answers with its internal-error response
UncaughtStatus == 500

\* variant: the body is read after the record is pushed
SendEmailMalformedAfterPush(text) ==
  /\ CallStackEmpty
  /\ served < MaxRequests
  /\ uuid' = uuid + 1
  /\ SENT_EMAILS' = Append(SENT_EMAILS, Body(<<>>, <<>>, <<uuid + 1>>))
  /\ reply' = Reply("SendEmail", UncaughtStatus, "Internal Server Error")
  /\ served' = served + 1
  /\ UNCHANGED <<WEBHOOK_URL, running, parsing, timers, invoked, posts, fetches,
                 console, responses, handoffs, snsVars, storeVars>>

\* POST /api/ses/v2/email/outbound-emails with a body that is no JSON text:
\* line 312, await c.req.json() throws and the handler ends there
SendEmailMalformed(text) ==
  /\ CallStackEmpty
  /\ served < MaxRequests
  /\ reply' = Reply("SendEmail", UncaughtStatus, "Internal Server Error")
  /\ served' = served + 1
  /\ UNCHANGED <<sendVars, snsVars, storeVars>>

(***************************************************************************)
(* Requests and parser results of the runs that mix all endpoints.         *)
(***************************************************************************)
MixedBodies ==
  { Body(<< <<UserAddr>> >>, <<>>, <<>>),
    Body(<<>>, <<RawBase64>>, <<>>) }

MixedParseOutcomes ==
  { [kind |-> "throw"],
    [kind |-> "string", value |-> UserUpper] }

MixedSnsParams ==
  { [Action |-> <<"Subscribe">>, Name |-> <<>>,
     TopicArn |-> <<ArnPrefix \o FooName>>,
     Endpoint |-> <<"http://localhost:4000/sns-hook">>],
    [Action |-> <<"DeleteTopic">>, Name |-> <<>>,
     TopicArn |-> <<ArnPrefix \o FooName>>, Endpoint |-> <<>>],
    [Action |-> <<"bogus">>, Name |-> <<>>, TopicArn |-> <<>>, Endpoint |-> <<>>] }

Next ==
  \/ \E body \in ClientBodies(SENT_EMAILS) : SendEmail(body)
  \/ \E send \in parsing, parsed \in ParseOutcomes : ParseDone(send, parsed)
  \/ Return
  \/ TimerFire
  \/ Tick
  \/ \E i \in fetches, outcome \in FetchOutcomes : FetchSettle(i, outcome)

Spec == Init /\ [][Next]_vars

NextSns ==
  \/ \E params \in SnsParams : SnsRequest(params)
  \/ \E i \in 1..Len(confirms), outcome \in {"fulfilled", "rejected"} :
       ConfirmSettle(i, outcome)

SpecSns == Init /\ [][NextSns]_vars

\* the budget of the runs that mix all endpoints
WithinBudget == Requests < MaxRequests

NextAll ==
  \/ WithinBudget /\ \E body \in MixedBodies : SendEmail(body)
  \/ WithinBudget /\ \E text \in MalformedTexts : SendEmailMalformed(text)
  \/ WithinBudget /\ \E params \in MixedSnsParams : SnsRequest(params)
  \/ WithinBudget /\ \E identity \in IdentityNames : GetEmailIdentity(identity)
  \/ WithinBudget /\ \E body \in CreateIdentityBodies : CreateEmailIdentity(body)
  \/ WithinBudget /\ \E identity \in IdentityNames : DeleteEmailIdentity(identity)
  \/ WithinBudget /\ \E identity \in IdentityNames, body \in MailFromBodies :
       PutEmailIdentityMailFromAttributes(identity, body)
  \/ WithinBudget /\ GetAccount
  \/ WithinBudget /\ \E body \in DestinationBodies : CreateConfigurationSet(body)
  \/ WithinBudget /\ \E configSet \in ConfigSetNames, body \in DestinationBodies :
       CreateConfigurationSetEventDestination(configSet, body)
  \/ WithinBudget /\ GetAllEmails
  \/ \E send \in parsing, parsed \in MixedParseOutcomes : ParseDone(send, parsed)
  \/ Return
  \/ TimerFire
  \/ Tick
  \/ \E i \in fetches, outcome \in FetchOutcomes : FetchSettle(i, outcome)
  \/ \E i \in 1..Len(confirms), outcome \in {"fulfilled", "rejected"} :
       ConfirmSettle(i, outcome)

SpecAll == Init /\ [][NextAll]_vars

(***************************************************************************)
(* Properties.                                                             *)
(***************************************************************************)
\* the lower-cased form of every address of the runs, computed once
LowerOf == [a \in AllAddresses |-> toLowerCase(a)]

\* the keys of the event pattern table that equal the lower-cased address
KeysOf(r) ==
  {k \in 1..Len(EMAIL_EVENT_PATTERNS) : EMAIL_EVENT_PATTERNS[k].pattern = LowerOf[r]}

Registered(r) == KeysOf(r) # {}

RegisteredEvents(r) == EMAIL_EVENT_PATTERNS[CHOOSE k \in KeysOf(r) : TRUE].events

\* the dispatcher calls made, and the timers pending, for recipient j of req
InvokedFor(req, j) == SelectSeq(invoked, LAMBDA x : x.req = req /\ x.rcpt = j)

PendingFor(req, j) == SelectSeq(timers, LAMBDA t : t.req = req /\ t.rcpt = j)

\* recipient j of hand-off h is served exactly the event sequence ev: the
\* calls made so far are its first events, each at offset i x 1000 ms, and
\* the timers pending are the rest, in order
Serves(h, j, ev) ==
  LET inv == InvokedFor(h.req, j)
      pen == PendingFor(h.req, j)
  IN /\ Len(inv) + Len(pen) = Len(ev)
     /\ \A i \in 1..Len(inv) :
          /\ inv[i].eventType = ev[i]
          /\ inv[i].offset = (i - 1) * 1000
          /\ inv[i].recipient = h.toAddresses[j]
          /\ inv[i].messageId = h.messageId
     /\ \A i \in 1..Len(pen) :
          /\ pen[i].eventType = ev[Len(inv) + i]
          /\ pen[i].delay = (Len(inv) + i - 1) * 1000
          /\ pen[i].age <= pen[i].delay

\* C1: every recipient of a send whose lower-cased address is a key of the
\* event pattern table, in whatever letter case it was written, gets the
\* dispatcher called with exactly the registered event kinds, in table
\* order, event i at offset i x 1 second.
C1_RegisteredSequence ==
  \A n \in 1..Len(handoffs) :
    \A j \in 1..Len(handoffs[n].toAddresses) :
      Registered(handoffs[n].toAddresses[j]) =>
        Serves(handoffs[n], j, RegisteredEvents(handoffs[n].toAddresses[j]))

\* a recipient written in another letter case than its key has had all
\* three events of its sequence dispatched
C1_Witness ==
  \E n \in 1..Len(handoffs) :
    \E j \in 1..Len(handoffs[n].toAddresses) :
      /\ Registered(handoffs[n].toAddresses[j])
      /\ LowerOf[handoffs[n].toAddresses[j]] # handoffs[n].toAddresses[j]
      /\ Len(InvokedFor(handoffs[n].req, j)) = 3

\* C2: every recipient whose lower-cased address is no key of the table
\* gets exactly two dispatcher calls, Send at offset 0 s and Delivery at
\* offset 1 s.
C2_DefaultSequence ==
  \A n \in 1..Len(handoffs) :
    \A j \in 1..Len(handoffs[n].toAddresses) :
      ~Registered(handoffs[n].toAddresses[j]) =>
        Serves(handoffs[n], j, <<"Send", "Delivery">>)

\* an unregistered recipient has had both default events dispatched
C2_Witness ==
  \E n \in 1..Len(handoffs) :
    \E j \in 1..Len(handoffs[n].toAddresses) :
      /\ ~Registered(handoffs[n].toAddresses[j])
      /\ Len(InvokedFor(handoffs[n].req, j)) = 2

\* the hand-off and the recipient a dispatcher call was scheduled for
HandOffOf(req) == handoffs[CHOOSE n \in 1..Len(handoffs) : handoffs[n].req = req]

ScheduledRecipient(x) == HandOffOf(x.req).toAddresses[x.rcpt]

\* C3: the Bounce body of a recipient classified to the soft-bounce pattern,
\* in any letter case, has bounceType "Transient"; the Bounce body of any
\* other recipient has bounceType "Permanent".
C3_BounceTypeFollowsClass ==
  \A n \in 1..Len(posts) :
    JSONparse(posts[n].Message).eventType = "Bounce" =>
      JSONparse(posts[n].Message).bounce.bounceType =
        IF LowerOf[ScheduledRecipient(invoked[n])] = SoftBouncedAddr
        THEN "Transient" ELSE "Permanent"

\* the event sequence the table and the default give recipient r
ExpectedEvents(r) == IF Registered(r) THEN RegisteredEvents(r) ELSE <<"Send", "Delivery">>

\* every recipient handed off has each of its events either dispatched once
\* or still pending
AllServed ==
  \A n \in 1..Len(handoffs) :
    \A j \in 1..Len(handoffs[n].toAddresses) :
      Serves(handoffs[n], j, ExpectedEvents(handoffs[n].toAddresses[j]))

Responded(req) == \E n \in 1..Len(responses) : responses[n].req = req

C6_EnvelopeMatchesSchedule ==
  /\ Len(posts) = IF WEBHOOK_URL = <<>> THEN 0 ELSE Len(invoked)
  /\ \A n \in 1..Len(posts) :
       LET x == invoked[n]
           m == JSONparse(posts[n].Message)
       IN /\ posts[n].Type = "Notification"
          /\ m.eventType = ExpectedEvents(ScheduledRecipient(x))[x.index + 1]
          /\ m.mail.messageId = SENT_EMAILS[x.req].MessageId[1]
          /\ \E k \in 1..Len(responses) :
               responses[k].req = x.req /\ responses[k].MessageId = m.mail.messageId
          /\ m.mail.destination = <<ScheduledRecipient(x)>>

\* envelopes of two sends have been POSTed alternately, one of them for a
\* recipient written in mixed case
C6_Witness ==
  \E a, b, c \in 1..Len(posts) :
    /\ a < b /\ b < c
    /\ invoked[a].req = invoked[c].req
    /\ invoked[a].req # invoked[b].req
    /\ \E n \in {a, b, c} : LowerOf[invoked[n].recipient] # invoked[n].recipient

LogLines == {LogLine(outcome) : outcome \in FetchOutcomes}

\* C7: with the callback URL set, a callback POST that fails is logged and
\* changes nothing else: no setTimeout call is dispatched twice, every
\* event scheduled is dispatched or still pending, and the step in which a
\* POST settles writes its line and leaves the timers, the POSTs made and
\* the responses as they were.
C7_FailureHasNoEffect ==
  /\ [](/\ AllServed
        /\ \A n1, n2 \in 1..Len(invoked) :
             (/\ invoked[n1].req = invoked[n2].req
              /\ invoked[n1].rcpt = invoked[n2].rcpt
              /\ invoked[n1].index = invoked[n2].index) => n1 = n2
        /\ Len(posts) <= Len(invoked))
  /\ [][(fetches' # fetches /\ fetches' \subseteq fetches) =>
          /\ console' \in LogLines
          /\ timers' = timers
          /\ invoked' = invoked
          /\ posts' = posts
          /\ responses' = responses
          /\ SENT_EMAILS' = SENT_EMAILS]_vars

\* a POST of the first event of a recipient has failed, nothing is in
\* flight, and the later events of that recipient are dispatched or pending
C7_Witness ==
  /\ WEBHOOK_URL # <<>>
  /\ console # <<>> /\ console[1] = "error"
  /\ fetches = {}
  /\ Len(posts) = 1
  /\ timers # <<>>
  /\ timers[1].req = invoked[1].req /\ timers[1].rcpt = invoked[1].rcpt

\* C8: with no callback URL, no POST is ever issued; the events are still
\* scheduled and dispatched, and each dispatcher call returns before it
\* builds a payload: it draws no identifier and only writes its skip line.
C8_NoPostWithoutUrl ==
  WEBHOOK_URL = <<>> =>
    /\ posts = <<>>
    /\ fetches = {}
    /\ uuid = Len(SENT_EMAILS)
    /\ AllServed
    /\ invoked # <<>> =>
         console = <<"log", "No webhook URL configured, skipping notification">>

\* with no callback URL, the three events of a recipient have been dispatched
C8_Witness ==
  /\ WEBHOOK_URL = <<>>
  /\ timers = <<>>
  /\ \E n \in 1..Len(invoked) : invoked[n].index = 2

\* C9: the handler returns its response before the dispatcher is called for
\* any event of its send, the events at offset 0 included, and it waits for
\* nothing: while the handler is on the call stack every timer of its send
\* is pending with no time elapsed.
C9_ResponseBeforeDispatch ==
  /\ \A n \in 1..Len(invoked) : Responded(invoked[n].req)
  /\ running # <<>> =>
       /\ ~Responded(running[1].req)
       /\ \A i \in 1..Len(timers) : timers[i].req = running[1].req => timers[i].age = 0
       /\ \A n \in 1..Len(invoked) : invoked[n].req # running[1].req

\* a send is answered while all its events, the one at offset 0 included,
\* are still pending
C9_Witness ==
  \E n \in 1..Len(responses) :
    /\ \E i \in 1..Len(timers) : timers[i].req = responses[n].req /\ timers[i].delay = 0
    /\ \A k \in 1..Len(invoked) : invoked[k].req # responses[n].req

EndsWith(s, suffix) ==
  /\ Len(s) >= Len(suffix)
  /\ SubSeq(s, Len(s) - Len(suffix) + 1, Len(s)) = suffix

KnownSnsActions ==
  {<<"CreateTopic">>, <<"Subscribe">>, <<"Publish">>, <<"DeleteTopic">>}

\* C10: the response of a pub/sub request is selected by its Action alone:
\* CreateTopic with Name n returns a success document whose topic identifier
\* ends in n; an Action outside the four, or none, returns status 400 and an
\* error document whose message names the value received.
C10_ActionSelectsResponse ==
  \A n \in 1..Len(snsResponses) :
    LET e == snsResponses[n] IN
    /\ e.request.Action = <<"CreateTopic">> =>
         /\ e.status = 200
         /\ e.doc.root = "CreateTopicResponse"
         /\ e.request.Name # <<>> => EndsWith(e.doc.TopicArn, e.request.Name[1])
    /\ e.request.Action \notin KnownSnsActions =>
         /\ e.status = 400
         /\ e.doc.root = "ErrorResponse"
         /\ e.doc.Message[2] = IF e.request.Action = <<>> THEN "null"
                               ELSE e.request.Action[1]
    /\ \A n2 \in 1..Len(snsResponses) :
         snsResponses[n2].request.Action = e.request.Action =>
           /\ snsResponses[n2].status = e.status
           /\ snsResponses[n2].doc.root = e.doc.root

\* a CreateTopic request with a name and a request without Action have
\* been answered
C10_Witness ==
  /\ Len(snsResponses) = 2
  /\ snsResponses[1].request.Action = <<"CreateTopic">>
  /\ snsResponses[1].request.Name = <<OrdersName>>
  /\ snsResponses[2].request.Action = <<>>

\* C11: every response of the pub/sub endpoint, whatever the action, carries
\* a request id, and that id is an identifier no other response carries.
C11_EveryResponseHasRequestId ==
  \A n \in 1..Len(snsResponses) :
    /\ snsResponses[n].doc.RequestId # <<>>
    /\ \A n2 \in 1..Len(snsResponses) :
         n2 # n => snsResponses[n2].doc.RequestId # snsResponses[n].doc.RequestId

\* the confirmation POSTs of the Subscribe requests answered so far that
\* supplied both a topic identifier and an endpoint
SubscribesWithBoth ==
  SelectSeq(snsResponses, LAMBDA e :
    /\ e.request.Action = <<"Subscribe">>
    /\ e.request.TopicArn # <<>> /\ e.request.TopicArn[1] # <<>>
    /\ e.request.Endpoint # <<>> /\ e.request.Endpoint[1] # "")

\* C12: the confirmation POSTs made are, one for one and in order, those of
\* the Subscribe requests that supplied a topic identifier and an endpoint:
\* each is a POST to the endpoint supplied, with Type
\* "SubscriptionConfirmation" and the TopicArn supplied; the Subscribe
\* response exists while its POST is still pending; no other request has one.
C12_SubscribeConfirmsOnce ==
  /\ Len(confirms) = Len(SubscribesWithBoth)
  /\ \A k \in 1..Len(confirms) :
       /\ confirms[k].url = SubscribesWithBoth[k].request.Endpoint[1]
       /\ confirms[k].method = "POST"
       /\ JSONparse(confirms[k].body).Type = "SubscriptionConfirmation"
       /\ JSONparse(confirms[k].body).TopicArn = SubscribesWithBoth[k].request.TopicArn[1]
       /\ SubscribesWithBoth[k].status = 200
       /\ SubscribesWithBoth[k].doc.root = "SubscribeResponse"

\* a Subscribe with both values is answered, its POST is still pending, and
\* a request of another action was answered after it without a POST
C12_Witness ==
  /\ Len(snsResponses) = 2
  /\ snsResponses[1].request.Action = <<"Subscribe">>
  /\ snsResponses[2].request.Action = <<"Publish">>
  /\ snsResponses[2].request.Endpoint = <<"http://localhost:4000/sns-hook">>
  /\ Len(confirms) = 1
  /\ confirms[1].state = "pending"

\* a step in which the endpoint named route answers a request
Answers(route) == served' = served + 1 /\ reply'.route = route

\* C13: the step that answers a send whose body is no JSON text rejects it
\* and assigns no message id: it draws no identifier, leaves the log, the
\* timers, the hand-offs and the handlers as they were, and the account
\* endpoint reports the length of that log as the sent count.
C13_MalformedRejectedBeforeId ==
  [][/\ Answers("SendEmail") =>
          /\ reply'.status >= 400
          /\ UNCHANGED <<SENT_EMAILS, uuid, timers, handoffs, parsing, running,
                         invoked, responses>>
     /\ Answers("GetAccount") =>
          reply'.body.SendQuota.SentLast24Hours = Len(SENT_EMAILS')]_vars

\* a send with a malformed body was rejected after a send was accepted: the
\* log holds the one record and the identifier drawn is that record's
C13_Witness ==
  /\ reply # <<>> /\ reply.route = "SendEmail"
  /\ Len(SENT_EMAILS) = 1
  /\ uuid = 1
  /\ timers # <<>>
  /\ Len(responses) = 1

\* C14: a send whose body is no JSON text is answered with a 4xx status, as
\* a pub/sub request with an unknown action is.
C14_ClientErrorsAre4xx ==
  /\ (reply # <<>> /\ reply.route = "SendEmail") => reply.status \in 400..499
  /\ \A n \in 1..Len(snsResponses) :
       snsResponses[n].request.Action \notin KnownSnsActions =>
         snsResponses[n].status \in 400..499

\* record k of the log is of the raw form: it carries base64 data
RawForm(k) == SENT_EMAILS[k].RawData # <<>> /\ SENT_EMAILS[k].RawData[1] # ""

HandedOff(k) == \E n \in 1..Len(handoffs) : handoffs[n].req = k

\* C15: while the record of a send is in the log and its events are not
\* handed off, no step of another handler or deferred task runs: no record
\* is appended, no handler runs or responds, no dispatcher call is made and
\* no POST settles.
C15_NoSuspension ==
  [][\A send \in parsing :
       send \in parsing' =>
         UNCHANGED <<SENT_EMAILS, running, invoked, posts, fetches, console,
                     responses, handoffs>>]_vars

\* C15 as amended: a structured send is handed off in the step that appends
\* its record; a send whose record is in the log without a hand-off is of the
\* raw form and is suspended at the parser; when the parser settles, the
\* handler resumes and the hand-off is done in that one step.
C15_SuspendsOnlyAtParse ==
  /\ [](\A k \in 1..Len(SENT_EMAILS) :
          /\ ~RawForm(k) => HandedOff(k)
          /\ ~HandedOff(k) => \E send \in parsing : send.req = k
          /\ HandedOff(k) => \A send \in parsing : send.req # k)
  /\ [][\A send \in parsing :
          send \notin parsing' =>
            /\ Len(handoffs') = Len(handoffs) + 1
            /\ handoffs'[Len(handoffs')].req = send.req
            /\ running' = <<send>>
            /\ SENT_EMAILS' = SENT_EMAILS]_vars

\* a raw send is suspended at the parser while an event of a send accepted
\* after it has been dispatched
C15_Witness ==
  \E send \in parsing :
    \E n \in 1..Len(invoked) : invoked[n].req > send.req

\* the kinds of the EventBody variant
EventBodyKinds ==
  {"Send", "Delivery", "Bounce", "Complaint", "Open", "Click", "DeliveryDelay",
   "Rendering Failure"}

\* C16: every event kind the dispatcher is called with or a timer is
\* pending for, for any recipient of any send, is one of the eight kinds of
\* the EventBody variant.
C16_KindsInEventBodySet ==
  /\ \A n \in 1..Len(invoked) : invoked[n].eventType \in EventBodyKinds
  /\ \A i \in 1..Len(timers) : timers[i].eventType \in EventBodyKinds

\* C16 as amended: every such kind is one of the eight kinds or "Reject".
C16_KindsInEventBodySetOrReject ==
  /\ \A n \in 1..Len(invoked) : invoked[n].eventType \in EventBodyKinds \cup {"Reject"}
  /\ \A i \in 1..Len(timers) : timers[i].eventType \in EventBodyKinds \cup {"Reject"}

\* the dispatcher has been called with the kind "Reject", and with the
\* callback URL set its envelope has been POSTed
C16_Witness ==
  /\ WEBHOOK_URL # <<>>
  /\ \E n \in 1..Len(posts) :
       /\ invoked[n].eventType = "Reject"
       /\ JSONparse(posts[n].Message).eventType = "Reject"

SameRecipient(x, y) == x.req = y.req /\ x.rcpt = y.rcpt

\* C17: for each recipient of a send the dispatcher calls are made in
\* sequence order, ahead of the timers still pending for it; and a callback
\* that is due is dispatched whatever POSTs are in flight, those of its own
\* recipient and of other recipients included (up to MaxInFlight POSTs in
\* flight): no dispatch start waits for a POST to complete.
C17_DispatchNeverWaits ==
  /\ \A n1, n2 \in 1..Len(invoked) :
       (n1 < n2 /\ SameRecipient(invoked[n1], invoked[n2])) =>
         invoked[n1].index < invoked[n2].index
  /\ \A n \in 1..Len(invoked) : \A i \in 1..Len(timers) :
       SameRecipient(invoked[n], timers[i]) => invoked[n].index < timers[i].index
  /\ (/\ CallStackEmpty
      /\ HasDue
      /\ (WEBHOOK_URL = <<>> \/ Cardinality(fetches) < MaxInFlight))
     => ENABLED TimerFire

\* event i+1 of a recipient has been delivered while the POST of its event i
\* is still in flight, and an event of another recipient of the same send
\* has been delivered meanwhile
C17_Witness ==
  /\ console = <<"log", "Sent notification">>
  /\ \E a \in fetches : \E b, c \in (1..Len(posts)) \ fetches :
       /\ SameRecipient(invoked[a], invoked[b])
       /\ invoked[b].index = invoked[a].index + 1
       /\ invoked[c].req = invoked[a].req
       /\ invoked[c].rcpt # invoked[a].rcpt

\* the record a send handler that has just started has appended
StartedBy(send, log) ==
  /\ send.req = Len(log)
  /\ log[Len(log)].MessageId = <<send.messageId>>

\* C18: in every step the log keeps every record it holds, at its position
\* and with its message id and content, and never gets shorter; a step that
\* changes the log appends the one record of a send whose handler starts in
\* that step, with a newly drawn message id; the steps of the identity,
\* configuration-set, account, listing and pub/sub endpoints, of a rejected
\* send and of the deferred callbacks leave the log as it is.
C18_LogAppendOnly ==
  [][/\ Len(SENT_EMAILS') >= Len(SENT_EMAILS)
     /\ SubSeq(SENT_EMAILS', 1, Len(SENT_EMAILS)) = SENT_EMAILS
     /\ SENT_EMAILS' # SENT_EMAILS =>
          /\ Len(SENT_EMAILS') = Len(SENT_EMAILS) + 1
          /\ uuid' = uuid + 1
          /\ SENT_EMAILS'[Len(SENT_EMAILS')].MessageId = <<uuid'>>
          /\ \/ running' # <<>> /\ StartedBy(running'[1], SENT_EMAILS')
             \/ \E send \in parsing' \ parsing : StartedBy(send, SENT_EMAILS')
          /\ UNCHANGED <<snsVars, apiVars, invoked, posts, fetches, responses>>]_vars

\* the listing has returned the two records of the log after events of a
\* send were dispatched
C18_Witness ==
  /\ Len(SENT_EMAILS) = 2
  /\ reply # <<>> /\ reply.route = "GetAllEmails"
  /\ reply.body.emails = SENT_EMAILS
  /\ invoked # <<>>

\* C19: when the confirmation POST of a Subscribe fails, the step in which
\* it fails writes an error line, the rejection is taken by a handler of the
\* emulator and does not escape, the Subscribe response stays the success
\* response it was, and no further POST is made.
C19_ConfirmationFailureSwallowed ==
  /\ [](\A i \in 1..Len(confirms) :
          confirms[i].state = "rejected" => i \notin unhandledRejections)
  /\ [][\A i \in 1..Len(confirms) :
          (confirms[i].state = "pending" /\ confirms'[i].state = "rejected") =>
            /\ console' # <<>> /\ console'[1] = "error"
            /\ Len(confirms') = Len(confirms)
            /\ snsResponses' = snsResponses
            /\ SubscribesWithBoth[i].status = 200]_vars

\* the sum, over the positions of recipient list R, of the length of the
\* event sequence the address at that position classifies to
RECURSIVE EventsOwed(_)
EventsOwed(R) ==
  IF R = <<>> THEN 0 ELSE Len(ExpectedEvents(Head(R))) + EventsOwed(Tail(R))

\* the dispatcher calls made and the timers pending for send req
InvokedOf(req) == SelectSeq(invoked, LAMBDA x : x.req = req)

PendingOf(req) == SelectSeq(timers, LAMBDA t : t.req = req)

\* C20: the events scheduled for a send with recipient list R, dispatched
\* or pending, number the sum over the positions of R of the length of the
\* sequence of the address at that position; every position, a repeated
\* address included, has its full sequence of its own, all with the message
\* id of the send; an empty R schedules nothing.
C20_ScheduledPerOccurrence ==
  \A n \in 1..Len(handoffs) :
    LET h == handoffs[n] IN
    /\ Len(InvokedOf(h.req)) + Len(PendingOf(h.req)) = EventsOwed(h.toAddresses)
    /\ \A j \in 1..Len(h.toAddresses) :
         /\ Len(InvokedFor(h.req, j)) + Len(PendingFor(h.req, j)) =
              Len(ExpectedEvents(h.toAddresses[j]))
         /\ Serves(h, j, ExpectedEvents(h.toAddresses[j]))
    /\ \A i \in 1..Len(timers) :
         timers[i].req = h.req => timers[i].messageId = h.messageId
    /\ \A i \in 1..Len(invoked) :
         invoked[i].req = h.req => invoked[i].messageId = h.messageId
    /\ h.toAddresses = <<>> =>
         InvokedOf(h.req) = <<>> /\ PendingOf(h.req) = <<>>

\* a send names the same registered address twice and the three events of
\* its sequence have been dispatched for each of the two positions
C20_Witness ==
  \E n \in 1..Len(handoffs) :
    /\ Len(handoffs[n].toAddresses) = 2
    /\ handoffs[n].toAddresses[1] = handoffs[n].toAddresses[2]
    /\ Len(InvokedFor(handoffs[n].req, 1)) = 3
    /\ Len(InvokedFor(handoffs[n].req, 2)) = 3
    /\ timers = <<>>

====
